---- MODULE Spec2Model ----
(***************************************************************************)
(* Solana mint indexer (src/index.js, first variant, lines 1-308), the    *)
(* scan loop without slot lag (src/unnamed/part_005) and the token server  *)
(* (src/unnamed/part_003), each under specifications of its own.          *)
(*                                                                         *)
(* One Node.js process: an Express server with GET /api/mints, a listen    *)
(* callback that reads the initial slot, and the endless async function    *)
(* pollNewBlocks.  JavaScript runs one callback at a time, so the code     *)
(* between two awaits is atomic with respect to every other callback       *)
(* (fs.writeFile completions, HTTP requests).  The model keeps that: the   *)
(* synchronous handling of one fetched block is split into one step per    *)
(* transaction so that intermediate states can be named, but no other      *)
(* callback is enabled while pc = "process".  Of the block being handled   *)
(* the state keeps the transactions still to visit and the number visited. *)
(*                                                                         *)
(* The remote node, the file system and the HTTP client are the            *)
(* environment: heights, blocks, transaction shapes, the outcome and the   *)
(* completion order of the file writes and the moments of the GET requests *)
(* are chosen nondeterministically.  Objects of the libraries              *)
(* (@solana/web3.js, borsh) appear by the fields and calls the code uses:  *)
(* a versioned transaction either fails somewhere in serialize /           *)
(* deserialize / decompile or yields instructions and account keys.        *)
(***************************************************************************)
EXTENDS Integers, Sequences, FiniteSets, TLC

VARIABLES
    pc,             \* the await at which the scan task is suspended
    lastSlot,       \* index.js:48   the cursor
    newMints,       \* index.js:49   the Set, in insertion order
    file,           \* content of mints.json
    pendingWrites,  \* snapshots of fs.writeFile calls not yet completed
    currentSlot,    \* index.js:153  height observed by the running cycle
    targetSlot,     \* index.js:154
    slot,           \* index.js:161  loop variable
    txQueue,        \* index.js:176  transactions of the fetched block that the
                    \*               for..of loop has not visited yet
    txIdx,          \* index.js:176  number of transactions the loop has visited
    cycleStart,     \* history: lastSlot when the running cycle read the height
    fetched,        \* history: getBlock calls of the running cycle, with outcome
    mintsArray,     \* index.js:55   the array parsed from mints.json at start
    apiResponse,    \* history: body of the last GET /api/mints response of
                    \*          the running cycle
    prevLastSlot,   \* history: lastSlot of the process that was running before
                    \*          the restart; 0 while there has been no restart
    \* the server variants (src/unnamed/part_003, src/server.js)
    newTokens,      \* part_003:19  the token store, newest record first
    handlers,       \* part_003:93  processNewTokenTx calls suspended at an await
    pollPc,         \* part_003:179 the await at which the poll is suspended
    pollQueue,      \* part_003:186 signatures of the poll from the one being
                    \*              handled on
    tokensResponse  \* history: body of the last GET /tokens response

\* the state of the server variants
srvVars == <<newTokens, handlers, pollPc, pollQueue, tokensResponse>>

\* the state of the indexer
idxVars == <<pc, lastSlot, newMints, file, pendingWrites, currentSlot, targetSlot,
             slot, txQueue, txIdx, cycleStart, fetched, mintsArray, apiResponse,
             prevLastSlot>>

vars == <<idxVars, srvVars>>

-----------------------------------------------------------------------------
(* Bounds of the model *)

\* heights the remote node reports are 100 .. 100 + MaxAdvance
MaxAdvance == 5
\* number of transactions in a fetched block
MaxTxPerBlock == 2
\* number of addresses in the mints.json an earlier run left behind
MaxFileLen == 2

(* Program constants *)

\* index.js:34
SLOT_LAG == 2
\* index.js:82  width of a public key in the Borsh schema
KeyLen == 32

\* index.js:153  the values connection.getSlot can resolve with; a later
\* answer can be lower than an earlier one (another node answers)
Heights == 100 .. (100 + MaxAdvance)

-----------------------------------------------------------------------------
(* Keys and addresses *)

\* a 32-byte public key all of whose bytes are b
KeyBytes(b) == [i \in 1..KeyLen |-> b]

TOKEN_PROGRAM_ID == KeyBytes(6)
OTHER_PROGRAM_ID == KeyBytes(7)

\* base58 text of the keys that occur in the model
Base58Table ==
    [a \in {"Auth1", "Auth2", "Mint1", "Mint2", "Mint3", "Payer", "Token", "Other"} |->
        CASE a = "Auth1" -> KeyBytes(1)
          [] a = "Auth2" -> KeyBytes(2)
          [] a = "Mint1" -> KeyBytes(11)
          [] a = "Mint2" -> KeyBytes(12)
          [] a = "Mint3" -> KeyBytes(13)
          [] a = "Payer" -> KeyBytes(20)
          [] a = "Token" -> TOKEN_PROGRAM_ID
          [] a = "Other" -> OTHER_PROGRAM_ID]

\* new PublicKey(bytes).toBase58(): the injective text encoding of 32 bytes
toBase58(bytes) ==
    IF \E a \in DOMAIN Base58Table : Base58Table[a] = bytes
    THEN CHOOSE a \in DOMAIN Base58Table : Base58Table[a] = bytes
    ELSE "?"

\* addresses a file left by an earlier run can hold
Addresses == {"Auth1", "Auth2"}

-----------------------------------------------------------------------------
(* Instruction payloads *)

\* the 67-byte InitializeMint payload
MintPayload(op, decimals, authority, flag, freeze) ==
    <<op, decimals>> \o authority \o <<flag>> \o freeze

\* Buffer.from(ix.data, 'base64'): ix.data is text; the model keeps the bytes
\* the text stands for together with the alphabet it was written in.  Text
\* that is not base64 decodes to other bytes of another length.
BufferFromBase64(data) ==
    IF data.enc = "base64" THEN data.bytes
    ELSE [i \in 1..(Len(data.bytes) + 1) |-> 255]

Base64(bytes) == [enc |-> "base64", bytes |-> bytes]

\* borsh.deserialize(InitializeMintSchema, ...): reads u8, u8, [32], u8, [32]
\* and throws when the buffer is shorter or longer than what it read
SchemaLen == 1 + 1 + KeyLen + 1 + KeyLen

\* variant: the decoder looks the authority up in the ledger and refuses a
\* payload whose authority is recorded
decodeInitializeMintInstructionLookup(instructionData) ==
    LET buffer == instructionData.data IN
    IF Len(buffer) # SchemaLen THEN [thrown |-> TRUE]
    ELSE IF \E i \in 1..Len(newMints) :
                newMints[i] = toBase58(SubSeq(buffer, 3, 2 + KeyLen))
         THEN [thrown |-> TRUE]
    ELSE [thrown |-> FALSE,
          instruction |-> buffer[1],
          decimals |-> buffer[2],
          mintAuthority |-> SubSeq(buffer, 3, 2 + KeyLen),
          freezeAuthorityOption |-> buffer[3 + KeyLen],
          freezeAuthority |-> SubSeq(buffer, 4 + KeyLen, 3 + 2 * KeyLen)]

\* variant: bytes after the last field are ignored
decodeInitializeMintInstructionPrefix(instructionData) ==
    LET buffer == instructionData.data IN
    IF Len(buffer) < SchemaLen THEN [thrown |-> TRUE]
    ELSE [thrown |-> FALSE,
          instruction |-> buffer[1],
          decimals |-> buffer[2],
          mintAuthority |-> SubSeq(buffer, 3, 2 + KeyLen),
          freezeAuthorityOption |-> buffer[3 + KeyLen],
          freezeAuthority |-> SubSeq(buffer, 4 + KeyLen, 3 + 2 * KeyLen)]

decodeInitializeMintInstruction(instructionData) ==
    LET buffer == instructionData.data IN
    IF Len(buffer) # SchemaLen THEN [thrown |-> TRUE]
    ELSE [thrown |-> FALSE,
          instruction |-> buffer[1],
          decimals |-> buffer[2],
          mintAuthority |-> SubSeq(buffer, 3, 2 + KeyLen),
          freezeAuthorityOption |-> buffer[3 + KeyLen],
          freezeAuthority |-> SubSeq(buffer, 4 + KeyLen, 3 + 2 * KeyLen)]

-----------------------------------------------------------------------------
(* Transactions as connection.getBlock delivers them.  A JavaScript value  *)
(* that may be undefined is a pair of a has-flag and the value.            *)

\* one compiled instruction: indices into the account keys are 0-based
Ix(programIdIndex, hasAccounts, accounts, data) ==
    [programIdIndex |-> programIdIndex, hasAccounts |-> hasAccounts,
     accounts |-> accounts, data |-> data]

\* version = -1 stands for transaction.version === undefined, -2 for a
\* version that is a text ('legacy'), for which version >= 0 is false
Tx(hasTransaction, version, hasAccountKeys, accountKeys, decompiles, instructions) ==
    [hasTransaction |-> hasTransaction, version |-> version,
     hasAccountKeys |-> hasAccountKeys, accountKeys |-> accountKeys,
     decompiles |-> decompiles, instructions |-> instructions]

Keys3(mint) == <<Base58Table["Payer"], Base58Table[mint], TOKEN_PROGRAM_ID>>

InitMint(authority) ==
    MintPayload(0, 6, Base58Table[authority], 0, KeyBytes(0))

\* payloads the decoder refuses: another opcode, a short buffer
OtherOpcode == MintPayload(7, 6, Base58Table["Auth2"], 0, KeyBytes(0))
ShortPayload == <<0, 6>>

\* a legacy transaction with five instructions: one of another program
\* that carries a well-formed payload, two token instructions that do not
\* decode, and two InitializeMint instructions for the accounts Mint1 and
\* Mint2 under the same authority Auth1
TwoMintsOneAuthority ==
    Tx(TRUE, -1, TRUE,
       <<Base58Table["Payer"], Base58Table["Mint1"], TOKEN_PROGRAM_ID,
         OTHER_PROGRAM_ID, Base58Table["Mint2"]>>,
       FALSE,
       <<Ix(3, TRUE, <<1>>, Base64(InitMint("Auth2"))),
         Ix(2, TRUE, <<1>>, Base64(OtherOpcode)),
         Ix(2, TRUE, <<1>>, Base64(ShortPayload)),
         Ix(2, TRUE, <<1>>, Base64(InitMint("Auth1"))),
         Ix(2, TRUE, <<4>>, Base64(InitMint("Auth1")))>>)

\* the transactions the remote node puts into a block in Spec:
\*   noTx        an entry without a transaction object
\*   mintM1M2A1  TwoMintsOneAuthority
\*   mintM3A2    legacy, InitializeMint of Mint3 under Auth2
\*   badShape    legacy, a token instruction without an accounts array
\*   vMintM1A1   versioned, InitializeMint of Mint1 under Auth1
TxNames == {"noTx", "mintM1M2A1", "mintM3A2", "badShape", "vMintM1A1"}

\* transactions the code cannot classify:
\*   noKeys      transaction.message is missing or has no accountKeys
\*   tagV9       transaction.version is a number the library does not know:
\*               serialize / deserialize / decompile throws
\*   tagText     transaction.version is a text other than a number (the test
\*               of index.js:184 sends it down the legacy path) and the
\*               message has no accountKeys
ShapeNames == {"noKeys", "tagV9", "tagText"}

\* the payloads of the decoding runs, by kind
PayloadKinds ==
    {"empty", "opcodeOnly", "short66", "long68", "opcode1", "opcode255",
     "wellFormed", "withFreeze", "flag0FreezeBytes"}

Payload(kind) ==
    CASE kind = "empty" -> <<>>
      [] kind = "opcodeOnly" -> <<0>>
      [] kind = "short66" -> SubSeq(InitMint("Auth2"), 1, SchemaLen - 1)
      [] kind = "long68" -> InitMint("Auth2") \o <<0>>
      [] kind = "opcode1" -> MintPayload(1, 6, Base58Table["Auth2"], 0, KeyBytes(0))
      [] kind = "opcode255" -> MintPayload(255, 6, Base58Table["Auth2"], 0, KeyBytes(0))
      [] kind = "wellFormed" -> MintPayload(0, 6, Base58Table["Auth2"], 0, KeyBytes(0))
      [] kind = "withFreeze" ->
            MintPayload(0, 0, Base58Table["Auth2"], 1, Base58Table["Payer"])
      [] kind = "flag0FreezeBytes" ->
            MintPayload(0, 255, Base58Table["Auth2"], 0, Base58Table["Payer"])

\* a transaction of the decoding runs: a token instruction with the payload
\* of the kind, followed by an InitializeMint of Mint1 under Auth1
DecodeCases ==
    {<<"l.empty", -1, "empty">>, <<"v.empty", 0, "empty">>,
     <<"l.opcodeOnly", -1, "opcodeOnly">>, <<"v.opcodeOnly", 0, "opcodeOnly">>,
     <<"l.short66", -1, "short66">>, <<"v.short66", 0, "short66">>,
     <<"l.long68", -1, "long68">>, <<"v.long68", 0, "long68">>,
     <<"l.opcode1", -1, "opcode1">>, <<"v.opcode1", 0, "opcode1">>,
     <<"l.opcode255", -1, "opcode255">>, <<"v.opcode255", 0, "opcode255">>,
     <<"l.wellFormed", -1, "wellFormed">>, <<"v.wellFormed", 0, "wellFormed">>,
     <<"l.withFreeze", -1, "withFreeze">>, <<"v.withFreeze", 0, "withFreeze">>,
     <<"l.flag0FreezeBytes", -1, "flag0FreezeBytes">>,
     <<"v.flag0FreezeBytes", 0, "flag0FreezeBytes">>}

DecodeNames == {c[1] : c \in DecodeCases}

DecodeTx(n) ==
    LET c == CHOOSE d \in DecodeCases : d[1] = n
        wire(bytes) == IF c[2] >= 0 THEN bytes ELSE Base64(bytes)
    IN Tx(TRUE, c[2], TRUE, Keys3("Mint1"), c[2] >= 0,
          <<Ix(2, TRUE, <<1>>, wire(Payload(c[3]))),
            Ix(2, TRUE, <<1>>, wire(InitMint("Auth1")))>>)

\* transactions of the extraction runs:
\*   l.wellFormed, v.wellFormed, mintM1M2A1   as above
\*   v.lookup     v.wellFormed with accounts referenced through an address
\*                lookup table: TransactionMessage.decompile(msg) is called
\*                without the table accounts (index.js:222) and throws
\*   badThenMint  legacy: a token instruction without an accounts array,
\*                then an InitializeMint of Mint1 under Auth1
ExtractNames == {"l.wellFormed", "v.wellFormed", "mintM1M2A1", "v.lookup", "badThenMint"}

\* transactions of the runs of the loop without slot lag:
\*   noTx, badShape  as above
\*   mintM3Rent   legacy, InitializeMint with the accounts Mint3 and Payer
\*                (the library decoder wants the mint and the rent account)
\*   v1Skipped    an entry with version 1 and the same instruction
CycleNames == {"noTx", "badShape", "mintM3Rent", "v1Skipped"}

Transactions ==
    [n \in TxNames \cup ShapeNames \cup DecodeNames \cup ExtractNames \cup CycleNames |->
        CASE n \in DecodeNames -> DecodeTx(n)
          [] n = "mintM3Rent" ->
                Tx(TRUE, -1, TRUE, Keys3("Mint3"), FALSE,
                   <<Ix(2, TRUE, <<1, 0>>, Base64(InitMint("Auth2")))>>)
          [] n = "v1Skipped" ->
                Tx(TRUE, 1, TRUE, Keys3("Mint1"), FALSE,
                   <<Ix(2, TRUE, <<1, 0>>, Base64(InitMint("Auth1")))>>)
          [] n = "v.lookup" ->
                [DecodeTx("v.wellFormed") EXCEPT !.decompiles = FALSE]
          [] n = "badThenMint" ->
                Tx(TRUE, -1, TRUE, Keys3("Mint1"), FALSE,
                   <<Ix(2, FALSE, <<>>, Base64(InitMint("Auth2"))),
                     Ix(2, TRUE, <<1>>, Base64(InitMint("Auth1")))>>)
          [] n = "noKeys" ->
                Tx(TRUE, -1, FALSE, <<>>, FALSE, <<>>)
          [] n = "tagV9" ->
                Tx(TRUE, 9, TRUE, Keys3("Mint3"), FALSE,
                   <<Ix(2, TRUE, <<1>>, InitMint("Auth2"))>>)
          [] n = "tagText" ->
                Tx(TRUE, -2, FALSE, <<>>, FALSE, <<>>)
          [] n = "noTx" ->
                Tx(FALSE, -1, FALSE, <<>>, FALSE, <<>>)
          [] n = "mintM1M2A1" -> TwoMintsOneAuthority
          [] n = "mintM3A2" ->
                Tx(TRUE, -1, TRUE, Keys3("Mint3"), FALSE,
                   <<Ix(2, TRUE, <<1>>, Base64(InitMint("Auth2")))>>)
          [] n = "badShape" ->
                Tx(TRUE, -1, TRUE, Keys3("Mint3"), FALSE,
                   <<Ix(2, FALSE, <<>>, Base64(InitMint("Auth2")))>>)
          [] n = "vMintM1A1" ->
                Tx(TRUE, 0, TRUE, Keys3("Mint1"), TRUE,
                   <<Ix(2, TRUE, <<1>>, InitMint("Auth1"))>>)]

RECURSIVE SeqsUpTo(_, _)
SeqsUpTo(S, n) ==
    IF n = 0 THEN {<<>>}
    ELSE LET shorter == SeqsUpTo(S, n - 1) IN
         shorter \cup {Append(q, x) : q \in {r \in shorter : Len(r) = n - 1}, x \in S}

\* answers of connection.getBlock that are not null: a block with its
\* transactions, or an object of another shape (no transactions array)
Blocks ==
    {[hasTransactions |-> TRUE, transactions |-> q] : q \in SeqsUpTo(TxNames, MaxTxPerBlock)}
    \cup {[hasTransactions |-> FALSE, transactions |-> <<>>]}

-----------------------------------------------------------------------------
(* The dedup ledger and the decoding of one transaction *)

Range(q) == {q[i] : i \in 1..Len(q)}

\* Set.prototype.has
Has(mints, a) == a \in Range(mints)

\* variant: a new address replaces the collection instead of joining it
SetAddReplacing(mints, a) == IF Has(mints, a) THEN mints ELSE <<a>>

\* Set.prototype.add keeps insertion order and ignores a present value
SetAdd(mints, a) == IF Has(mints, a) THEN mints ELSE Append(mints, a)

\* variant: the array lists the newest address first
ArrayFromNewestFirst(mints) == [i \in 1..Len(mints) |-> mints[Len(mints) + 1 - i]]

\* index.js:108 / 124  Array.from(newMints): the elements in insertion
\* order, as a value of its own
ArrayFrom(mints) == [i \in 1..Len(mints) |-> mints[i]]

\* the singleton state threaded through the handling of one transaction:
\* the ledger, the writes started, and whether an exception is propagating
Acc(mints, writes, thrown) == [mints |-> mints, writes |-> writes, thrown |-> thrown]

\* index.js:243 / 291  the key under which a decoded instruction is recorded
LedgerKey(decoded) == toBase58(decoded.mintAuthority)

\* variant: the insertion is not guarded
IsNewAlways(mints, mint) == TRUE

\* index.js:244 / 292  the guard of the insertion
IsNew(mints, mint) == ~Has(mints, mint)

\* variant: the opcode of the decoded record is not tested
TryDecodeAndInsertAnyOpcode(st, ixData) ==
    LET decoded == decodeInitializeMintInstruction(ixData) IN
    IF decoded.thrown THEN st
    ELSE LET mint == LedgerKey(decoded) IN
         IF IsNew(st.mints, mint)
         THEN LET added == SetAdd(st.mints, mint) IN
              Acc(added, st.writes \cup {ArrayFrom(added)}, FALSE)
         ELSE st

\* variant: persistMints is called for every decoded InitializeMint, new or
\* not
TryDecodeAndInsertAlwaysPersist(st, ixData) ==
    LET decoded == decodeInitializeMintInstruction(ixData) IN
    IF decoded.thrown THEN st
    ELSE IF decoded.instruction # 0 THEN st
    ELSE LET mint == LedgerKey(decoded) IN
         IF IsNew(st.mints, mint)
         THEN LET added == SetAdd(st.mints, mint) IN
              Acc(added, st.writes \cup {ArrayFrom(added)}, FALSE)
         ELSE Acc(st.mints, st.writes \cup {ArrayFrom(st.mints)}, FALSE)

\* index.js:240-252 and 288-300: try { decode; insert; persist } catch {}
TryDecodeAndInsert(st, ixData) ==
    LET decoded == decodeInitializeMintInstruction(ixData) IN
    IF decoded.thrown THEN st
    ELSE IF decoded.instruction # 0 THEN st
    ELSE LET mint == LedgerKey(decoded) IN
         IF IsNew(st.mints, mint)
         THEN LET added == SetAdd(st.mints, mint) IN
              Acc(added, st.writes \cup {ArrayFrom(added)}, FALSE)
         ELSE st

\* accountKeys[idx] of a JavaScript array: undefined outside the array
HasKey(accountKeys, idx) == idx >= 0 /\ idx < Len(accountKeys)

\* index.js:272-302  the loop of decodeLegacyTransaction from instruction k on
RECURSIVE LegacyLoop(_, _, _)
LegacyLoop(tx, k, st) ==
    IF k > Len(tx.instructions) \/ st.thrown THEN st
    ELSE LET ix == tx.instructions[k] IN
         IF HasKey(tx.accountKeys, ix.programIdIndex)
            /\ tx.accountKeys[ix.programIdIndex + 1] = TOKEN_PROGRAM_ID
         THEN IF ~ix.hasAccounts
              THEN Acc(st.mints, st.writes, TRUE)
              ELSE LegacyLoop(tx, k + 1,
                      TryDecodeAndInsert(st, [data |-> BufferFromBase64(ix.data)]))
         ELSE LegacyLoop(tx, k + 1, st)

\* variant: the test for a missing message / accountKeys is left out, and
\* message.instructions of an undefined message throws
decodeLegacyTransactionNoGuard(tx, st) ==
    IF ~tx.hasAccountKeys THEN Acc(st.mints, st.writes, TRUE)
    ELSE LegacyLoop(tx, 1, st)

\* index.js:264-303
decodeLegacyTransaction(tx, st) ==
    IF ~tx.hasAccountKeys THEN st
    ELSE LegacyLoop(tx, 1, st)

\* index.js:226-254  the loop of decodeVersionedTransaction from instruction
\* k on; ix.programId of a decompiled instruction is the resolved key
RECURSIVE VersionedLoop(_, _, _)
VersionedLoop(tx, k, st) ==
    IF k > Len(tx.instructions) \/ st.thrown THEN st
    ELSE LET ix == tx.instructions[k] IN
         IF HasKey(tx.accountKeys, ix.programIdIndex)
            /\ tx.accountKeys[ix.programIdIndex + 1] = TOKEN_PROGRAM_ID
         THEN IF ~ix.hasAccounts
              THEN Acc(st.mints, st.writes, TRUE)
              ELSE VersionedLoop(tx, k + 1,
                      TryDecodeAndInsert(st, [data |-> ix.data]))
         ELSE VersionedLoop(tx, k + 1, st)

\* index.js:213-258  everything runs inside try/catch: an exception of
\* serialize, deserialize, decompile or the loop ends the transaction and is
\* not propagated
decodeVersionedTransaction(tx, st) ==
    IF ~tx.decompiles THEN st
    ELSE LET r == VersionedLoop(tx, 1, st) IN Acc(r.mints, r.writes, FALSE)

\* index.js:176-189  the body of the for..of loop for one transaction
HandleTx(tx, st) ==
    IF ~tx.hasTransaction THEN st
    ELSE IF tx.version >= 0 THEN decodeVersionedTransaction(tx, st)
    ELSE decodeLegacyTransaction(tx, st)

-----------------------------------------------------------------------------
(* The file mints.json *)

FileMissing == [state |-> "missing", content |-> <<>>]
\* text that JSON.parse rejects: a truncated or interleaved write
FileCorrupt == [state |-> "corrupt", content |-> <<>>]
\* JSON.stringify(mintsArray, null, 2) as the whole content of the file
FileArray(arr) == [state |-> "array", content |-> arr]

Distinct(q) == \A i, j \in 1..Len(q) : q[i] = q[j] => i = j

\* what an earlier run can have left on disk: nothing, a broken text, or
\* the array of a Set (persistMints runs only after an insertion, so the
\* array is not empty and holds no address twice)
InitFiles ==
    {FileMissing, FileCorrupt}
    \cup {FileArray(q) : q \in {r \in SeqsUpTo(Addresses, MaxFileLen) :
                                    Distinct(r) /\ r # <<>>}}

RECURSIVE AddAll(_, _, _)
AddAll(mints, arr, k) ==
    IF k > Len(arr) THEN mints
    ELSE AddAll(SetAdd(mints, arr[k]), arr, k + 1)

\* variant: the load stops after the first entry of the array
LoadMintsFirstOnly(f) ==
    IF f.state = "array" /\ f.content # <<>> THEN <<f.content[1]>> ELSE <<>>

\* index.js:52-61  existsSync, readFileSync, JSON.parse, forEach add; a
\* failing parse is caught and leaves the Set empty
LoadMints(f) ==
    IF f.state = "array" THEN AddAll(<<>>, f.content, 1) ELSE <<>>

\* index.js:54-55  JSON.parse(readFileSync(...)) where it succeeds
ParsedArray(f) == IF f.state = "array" THEN f.content ELSE <<>>

-----------------------------------------------------------------------------
(* The state machine *)

NoResponse == [taken |-> FALSE, body |-> <<>>]

\* part_003:19, 194-208  the server variants after construction: the store
\* is empty and monitorTokenCreations awaits its first
\* getSignaturesForAddress
InitServerVars ==
    /\ newTokens = <<>>
    /\ handlers = {}
    /\ pollPc = "getSigs"
    /\ pollQueue = <<>>
    /\ tokensResponse = NoResponse

Fetch(i) == [slot |-> i, result |-> "pending"]

Init ==
    /\ file \in InitFiles
    /\ mintsArray = ParsedArray(file)
    /\ newMints = LoadMints(file)
    /\ pendingWrites = {}
    /\ lastSlot = 0
    /\ pc = "listen"
    /\ currentSlot = 0
    /\ targetSlot = 0
    /\ slot = 0
    /\ txQueue = <<>>
    /\ txIdx = 0
    /\ cycleStart = 0
    /\ fetched = <<>>
    /\ apiResponse = NoResponse
    /\ prevLastSlot = 0
    /\ InitServerVars

\* variant: the range starts at the cursor itself
FirstSlotAtCursor(last) == last

\* variant: every cycle scans the lag window again
FirstSlotRescan(last) == last - SLOT_LAG + 1

\* index.js:161  the first index of the range
FirstSlot(last) == last + 1

\* variant: the loop over the transactions stops one short
BlockDoneEarly(queue) == Len(queue) <= 1

\* index.js:176  the for..of loop has visited every transaction
BlockDone(queue) == queue = <<>>

\* variant: the test is strict
NoNewSlotsStrict(target, last) == target < last

\* index.js:156  the test for a cycle without new slots
NoNewSlots(target, last) == target <= last

\* index.js:131-141  the initial getSlot resolves; pollNewBlocks is called
\* and runs up to its first await
InitialSlotOk(h) ==
    /\ pc = "listen"
    /\ lastSlot' = h
    /\ pc' = "getSlot"
    /\ UNCHANGED <<newMints, file, pendingWrites, currentSlot, targetSlot, slot,
                   txQueue, txIdx, cycleStart, fetched, mintsArray, apiResponse, prevLastSlot, srvVars>>

\* variant: the catch logs and falls through to pollNewBlocks()
InitialSlotFailContinues ==
    /\ pc = "listen"
    /\ pc' = "getSlot"
    /\ UNCHANGED <<lastSlot, newMints, file, pendingWrites, currentSlot, targetSlot,
                   slot, txQueue, txIdx, cycleStart, fetched, mintsArray, apiResponse,
                   prevLastSlot, srvVars>>

\* index.js:135-138  the initial getSlot rejects: process.exit(1)
InitialSlotFail ==
    /\ pc = "listen"
    /\ pc' = "exit"
    /\ pendingWrites' = {}
    /\ UNCHANGED <<lastSlot, newMints, file, currentSlot, targetSlot, slot,
                   txQueue, txIdx, cycleStart, fetched, mintsArray, apiResponse, prevLastSlot, srvVars>>

\* index.js:153-161  getSlot resolves with h; either the cycle has nothing
\* to do or the loop starts and awaits the first getBlock
GetSlotOk(h) ==
    /\ pc = "getSlot"
    /\ currentSlot' = h
    /\ targetSlot' = h - SLOT_LAG
    /\ cycleStart' = lastSlot
    /\ IF NoNewSlots(h - SLOT_LAG, lastSlot)
       THEN /\ pc' = "sleep"
            /\ slot' = 0
            /\ fetched' = <<>>
       ELSE /\ pc' = "getBlock"
            /\ slot' = FirstSlot(lastSlot)
            /\ fetched' = <<Fetch(FirstSlot(lastSlot))>>
    /\ UNCHANGED <<lastSlot, newMints, file, pendingWrites, txQueue, txIdx,
                   mintsArray, apiResponse, prevLastSlot, srvVars>>

\* variant: the rejection is not caught and ends the process
GetSlotFailExits ==
    /\ pc = "getSlot"
    /\ pc' = "exit"
    /\ pendingWrites' = {}
    /\ UNCHANGED <<lastSlot, newMints, file, currentSlot, targetSlot, slot, txQueue,
                   txIdx, cycleStart, fetched, mintsArray, apiResponse, prevLastSlot, srvVars>>

\* index.js:198-203  getSlot rejects: logged, then the sleep
GetSlotFail ==
    /\ pc = "getSlot"
    /\ pc' = "sleep"
    /\ UNCHANGED <<lastSlot, newMints, file, pendingWrites, currentSlot, targetSlot,
                   slot, txQueue, txIdx, cycleStart, fetched, mintsArray, apiResponse, prevLastSlot, srvVars>>

\* variant: the loop runs up to the height itself, not to the lagged target
NextSlotNoLag(result) ==
    LET done == [fetched EXCEPT ![Len(fetched)].result = result] IN
    /\ txQueue' = <<>>
    /\ txIdx' = 0
    /\ IF slot + 1 <= currentSlot
       THEN /\ pc' = "getBlock"
            /\ slot' = slot + 1
            /\ fetched' = Append(done, Fetch(slot + 1))
       ELSE /\ pc' = "sleep"
            /\ slot' = 0
            /\ fetched' = done

\* index.js:161  slot++ and the loop test after the block at `slot` ended
\* with `result`; the next getBlock is awaited or the cycle goes to sleep
NextSlot(result) ==
    LET done == [fetched EXCEPT ![Len(fetched)].result = result] IN
    /\ txQueue' = <<>>
    /\ txIdx' = 0
    /\ IF slot + 1 <= targetSlot
       THEN /\ pc' = "getBlock"
            /\ slot' = slot + 1
            /\ fetched' = Append(done, Fetch(slot + 1))
       ELSE /\ pc' = "sleep"
            /\ slot' = 0
            /\ fetched' = done

\* variant: an unavailable block counts as processed
GetBlockNullAdvances ==
    /\ pc = "getBlock"
    /\ lastSlot' = slot
    /\ NextSlot("null")
    /\ UNCHANGED <<newMints, file, pendingWrites, currentSlot, targetSlot,
                   cycleStart, mintsArray, apiResponse, prevLastSlot, srvVars>>

\* index.js:169-172  getBlock resolves with null
GetBlockNull ==
    /\ pc = "getBlock"
    /\ NextSlot("null")
    /\ UNCHANGED <<lastSlot, newMints, file, pendingWrites, currentSlot, targetSlot,
                   cycleStart, mintsArray, apiResponse, prevLastSlot, srvVars>>

\* variant: the catch of the slot rethrows and the rejection of
\* pollNewBlocks, which nothing handles, ends the process
GetBlockFailExits ==
    /\ pc = "getBlock"
    /\ pc' = "exit"
    /\ pendingWrites' = {}
    /\ UNCHANGED <<lastSlot, newMints, file, currentSlot, targetSlot, slot, txQueue,
                   txIdx, cycleStart, fetched, mintsArray, apiResponse, prevLastSlot, srvVars>>

\* index.js:192-195  getBlock rejects
GetBlockFail ==
    /\ pc = "getBlock"
    /\ NextSlot("error")
    /\ UNCHANGED <<lastSlot, newMints, file, pendingWrites, currentSlot, targetSlot,
                   cycleStart, mintsArray, apiResponse, prevLastSlot, srvVars>>

\* variant: the loop asks for the next block without awaiting the work on
\* the block that just arrived
GetBlockOkPrefetch(b) ==
    /\ pc = "getBlock"
    /\ IF b.hasTransactions
       THEN /\ pc' = "process"
            /\ txQueue' = b.transactions
            /\ txIdx' = 0
            /\ fetched' = Append(fetched, Fetch(slot + 1))
            /\ UNCHANGED slot
       ELSE NextSlot("error")
    /\ UNCHANGED <<lastSlot, newMints, file, pendingWrites, currentSlot, targetSlot,
                   cycleStart, mintsArray, apiResponse, prevLastSlot, srvVars>>

\* index.js:165-176  getBlock resolves with an object; reading
\* block.transactions.length of an object without transactions throws
GetBlockOk(b) ==
    /\ pc = "getBlock"
    /\ IF b.hasTransactions
       THEN /\ pc' = "process"
            /\ txQueue' = b.transactions
            /\ txIdx' = 0
            /\ UNCHANGED <<slot, fetched>>
       ELSE NextSlot("error")
    /\ UNCHANGED <<lastSlot, newMints, file, pendingWrites, currentSlot, targetSlot,
                   cycleStart, mintsArray, apiResponse, prevLastSlot, srvVars>>

\* variant: a response already taken holds the live collection, so an
\* insertion shows in it
ProcessTxSharedArray ==
    /\ pc = "process"
    /\ ~BlockDone(txQueue)
    /\ LET r == HandleTx(Transactions[Head(txQueue)],
                         Acc(newMints, pendingWrites, FALSE)) IN
       /\ newMints' = r.mints
       /\ pendingWrites' = r.writes
       /\ apiResponse' = IF apiResponse.taken
                         THEN [apiResponse EXCEPT !.body = r.mints]
                         ELSE apiResponse
       /\ IF r.thrown
          THEN NextSlot("error")
          ELSE /\ txQueue' = Tail(txQueue)
               /\ txIdx' = txIdx + 1
               /\ UNCHANGED <<pc, slot, fetched>>
    /\ UNCHANGED <<lastSlot, file, currentSlot, targetSlot, cycleStart, mintsArray,
                   prevLastSlot, srvVars>>

\* variant: the catch of the slot counts the block as processed
ProcessTxThrowAdvances ==
    /\ pc = "process"
    /\ ~BlockDone(txQueue)
    /\ LET r == HandleTx(Transactions[Head(txQueue)],
                         Acc(newMints, pendingWrites, FALSE)) IN
       /\ newMints' = r.mints
       /\ pendingWrites' = r.writes
       /\ lastSlot' = IF r.thrown THEN slot ELSE lastSlot
       /\ IF r.thrown
          THEN NextSlot("error")
          ELSE /\ txQueue' = Tail(txQueue)
               /\ txIdx' = txIdx + 1
               /\ UNCHANGED <<pc, slot, fetched>>
    /\ UNCHANGED <<file, currentSlot, targetSlot, cycleStart, mintsArray,
                   apiResponse, prevLastSlot, srvVars>>

\* index.js:176-189  one transaction of the block; an exception leaves the
\* block through the catch of index.js:192
ProcessTx ==
    /\ pc = "process"
    /\ ~BlockDone(txQueue)
    /\ LET r == HandleTx(Transactions[Head(txQueue)],
                         Acc(newMints, pendingWrites, FALSE)) IN
       /\ newMints' = r.mints
       /\ pendingWrites' = r.writes
       /\ IF r.thrown
          THEN NextSlot("error")
          ELSE /\ txQueue' = Tail(txQueue)
               /\ txIdx' = txIdx + 1
               /\ UNCHANGED <<pc, slot, fetched>>
    /\ UNCHANGED <<lastSlot, file, currentSlot, targetSlot, cycleStart, mintsArray,
                   apiResponse, prevLastSlot, srvVars>>

\* variant: the cursor is left for the end of the cycle, as the loops
\* without slot lag do
FinishBlockCursorLater ==
    /\ pc = "process"
    /\ BlockDone(txQueue)
    /\ lastSlot' = lastSlot
    /\ NextSlot("ok")
    /\ UNCHANGED <<newMints, file, pendingWrites, currentSlot, targetSlot,
                   cycleStart, mintsArray, apiResponse, prevLastSlot, srvVars>>

\* index.js:191  all transactions handled: the cursor moves to the slot
FinishBlock ==
    /\ pc = "process"
    /\ BlockDone(txQueue)
    /\ lastSlot' = slot
    /\ NextSlot("ok")
    /\ UNCHANGED <<newMints, file, pendingWrites, currentSlot, targetSlot,
                   cycleStart, mintsArray, apiResponse, prevLastSlot, srvVars>>

\* index.js:203  the timer fires and the next cycle calls getSlot; the
\* history of the cycle that ended is dropped
Wake ==
    /\ pc = "sleep"
    /\ pc' = "getSlot"
    /\ currentSlot' = 0
    /\ targetSlot' = 0
    /\ cycleStart' = 0
    /\ fetched' = <<>>
    /\ apiResponse' = NoResponse
    /\ UNCHANGED <<lastSlot, newMints, file, pendingWrites, slot, txQueue, txIdx,
                   mintsArray, prevLastSlot, srvVars>>

\* the scan task is suspended at an await: other callbacks can run
Suspended == pc \in {"listen", "getSlot", "getBlock", "sleep"}

\* variant: the callback of a failed write takes the newest address of the
\* snapshot out of the Set again
CompleteWriteRollback(w, outcome) ==
    /\ Suspended
    /\ w \in pendingWrites
    /\ pendingWrites' = pendingWrites \ {w}
    /\ CASE outcome = "ok" -> file' = FileArray(w) /\ newMints' = newMints
         [] outcome = "openFailed" ->
                /\ file' = file
                /\ newMints' = SelectSeq(newMints, LAMBDA a : a # w[Len(w)])
         [] outcome = "writeFailed" ->
                /\ file' = FileCorrupt
                /\ newMints' = SelectSeq(newMints, LAMBDA a : a # w[Len(w)])
         [] outcome = "interleaved" ->
                /\ Cardinality(pendingWrites) >= 2
                /\ file' = FileCorrupt
                /\ newMints' = newMints
    /\ UNCHANGED <<pc, lastSlot, currentSlot, targetSlot, slot, txQueue,
                   txIdx, cycleStart, fetched, mintsArray, apiResponse, prevLastSlot, srvVars>>

\* index.js:109-115  one fs.writeFile ends.  Node runs the writes of one file
\* in no fixed order.  A failed open leaves the file alone, a failed write
\* leaves it truncated, and two writes in flight can interleave their bytes.
CompleteWrite(w, outcome) ==
    /\ Suspended
    /\ w \in pendingWrites
    /\ pendingWrites' = pendingWrites \ {w}
    /\ CASE outcome = "ok" -> file' = FileArray(w)
         [] outcome = "openFailed" -> file' = file
         [] outcome = "writeFailed" -> file' = FileCorrupt
         [] outcome = "interleaved" ->
                /\ Cardinality(pendingWrites) >= 2
                /\ file' = FileCorrupt
    /\ UNCHANGED <<pc, lastSlot, newMints, currentSlot, targetSlot, slot, txQueue,
                   txIdx, cycleStart, fetched, mintsArray, apiResponse, prevLastSlot, srvVars>>

WriteOutcomes == {"ok", "openFailed", "writeFailed", "interleaved"}

\* index.js:123-125  GET /api/mints
GetMints ==
    /\ Suspended
    /\ apiResponse' = [taken |-> TRUE, body |-> ArrayFrom(newMints)]
    /\ UNCHANGED <<pc, lastSlot, newMints, file, pendingWrites, currentSlot,
                   targetSlot, slot, txQueue, txIdx, cycleStart, fetched, mintsArray, prevLastSlot, srvVars>>

Next ==
    \/ \E h \in Heights : InitialSlotOk(h)
    \/ InitialSlotFail
    \/ \E h \in Heights : GetSlotOk(h)
    \/ GetSlotFail
    \/ GetBlockNull
    \/ GetBlockFail
    \/ \E b \in Blocks : GetBlockOk(b)
    \/ ProcessTx
    \/ FinishBlock
    \/ Wake
    \/ \E w \in pendingWrites, o \in WriteOutcomes : CompleteWrite(w, o)
    \/ GetMints

Spec == Init /\ [][Next]_vars

-----------------------------------------------------------------------------
(* The process is stopped and started again *)

\* the blocks of the runs with a restart: no transaction, or one legacy
\* InitializeMint
RestartBlocks ==
    {[hasTransactions |-> TRUE, transactions |-> q] : q \in {<<>>, <<"mintM3A2">>}}

\* index.js:47-61  the process ends (a signal, a crash, a deploy) and node
\* runs the module again: lastSlot is a module variable that nothing writes
\* to disk, so it is 0 again; newMints is loaded from what mints.json holds.
\* A write that was in flight has reached the file or has left it cut short.
Restart ==
    /\ prevLastSlot = 0
    /\ lastSlot > 0
    /\ prevLastSlot' = lastSlot
    /\ \E f \in (IF pendingWrites = {} THEN {file} ELSE {file, FileCorrupt}) :
            /\ file' = f
            /\ mintsArray' = ParsedArray(f)
            /\ newMints' = LoadMints(f)
    /\ pendingWrites' = {}
    /\ lastSlot' = 0
    /\ pc' = "listen"
    /\ currentSlot' = 0
    /\ targetSlot' = 0
    /\ slot' = 0
    /\ txQueue' = <<>>
    /\ txIdx' = 0
    /\ cycleStart' = 0
    /\ fetched' = <<>>
    /\ apiResponse' = NoResponse
    /\ UNCHANGED srvVars

NextRestart ==
    \/ \E h \in Heights : InitialSlotOk(h)
    \/ InitialSlotFail
    \/ \E h \in Heights : GetSlotOk(h)
    \/ GetSlotFail
    \/ GetBlockNull
    \/ GetBlockFail
    \/ \E b \in RestartBlocks : GetBlockOk(b)
    \/ ProcessTx
    \/ FinishBlock
    \/ Wake
    \/ \E w \in pendingWrites, o \in WriteOutcomes : CompleteWrite(w, o)
    \/ GetMints
    \/ Restart

SpecRestart == Init /\ [][NextRestart]_vars


-----------------------------------------------------------------------------
(* Runs whose blocks hold transactions that cannot be classified *)

ShapeBlocks ==
    {[hasTransactions |-> TRUE, transactions |-> q] :
        q \in SeqsUpTo(ShapeNames \cup {"noTx", "mintM3A2"}, MaxTxPerBlock)}

NextShapes ==
    \/ \E h \in Heights : InitialSlotOk(h)
    \/ InitialSlotFail
    \/ \E h \in Heights : GetSlotOk(h)
    \/ GetSlotFail
    \/ GetBlockNull
    \/ GetBlockFail
    \/ \E b \in ShapeBlocks : GetBlockOk(b)
    \/ ProcessTx
    \/ FinishBlock
    \/ Wake
    \/ \E w \in pendingWrites, o \in WriteOutcomes : CompleteWrite(w, o)
    \/ GetMints

SpecShapes == Init /\ [][NextShapes]_vars

-----------------------------------------------------------------------------
(* Runs whose blocks hold one transaction each, with the payloads of       *)
(* PayloadKinds on the legacy and on the versioned path                    *)

DecodeBlocks ==
    {[hasTransactions |-> TRUE, transactions |-> q] : q \in SeqsUpTo(DecodeNames, 1)}

NextDecode ==
    \/ \E h \in Heights : InitialSlotOk(h)
    \/ InitialSlotFail
    \/ \E h \in Heights : GetSlotOk(h)
    \/ GetSlotFail
    \/ GetBlockNull
    \/ GetBlockFail
    \/ \E b \in DecodeBlocks : GetBlockOk(b)
    \/ ProcessTx
    \/ FinishBlock
    \/ Wake
    \/ \E w \in pendingWrites, o \in WriteOutcomes : CompleteWrite(w, o)
    \/ GetMints

SpecDecode == Init /\ [][NextDecode]_vars

-----------------------------------------------------------------------------
(* Runs in which the scan loop is never kept waiting for ever: every getSlot
   and getBlock is answered (resolved or rejected), every timer fires, and
   the synchronous code between two awaits runs.  The listen callback, the
   write callbacks and the GET requests are under no such condition. *)

\* index.js:150-205  a step of pollNewBlocks
ScanStep ==
    \/ \E h \in Heights : GetSlotOk(h)
    \/ GetSlotFail
    \/ GetBlockNull
    \/ GetBlockFail
    \/ \E b \in RestartBlocks : GetBlockOk(b)
    \/ ProcessTx
    \/ FinishBlock
    \/ Wake

NextLive ==
    \/ \E h \in Heights : InitialSlotOk(h)
    \/ InitialSlotFail
    \/ \E h \in Heights : GetSlotOk(h)
    \/ GetSlotFail
    \/ GetBlockNull
    \/ GetBlockFail
    \/ \E b \in RestartBlocks : GetBlockOk(b)
    \/ ProcessTx
    \/ FinishBlock
    \/ Wake
    \/ \E w \in pendingWrites, o \in WriteOutcomes : CompleteWrite(w, o)
    \/ GetMints

SpecLive == Init /\ [][NextLive]_vars /\ WF_vars(ScanStep)

\* Runs in which, besides, the ledger keeps growing: again and again a
\* height query is answered with the greatest height.
SpecGrow ==
    /\ Init /\ [][NextLive]_vars
    /\ WF_vars(ScanStep)
    /\ SF_vars(GetSlotOk(100 + MaxAdvance))

-----------------------------------------------------------------------------
(* Runs whose blocks hold one transaction each, of ExtractNames *)

ExtractBlocks ==
    {[hasTransactions |-> TRUE, transactions |-> q] : q \in SeqsUpTo(ExtractNames, 1)}

NextExtract ==
    \/ \E h \in Heights : InitialSlotOk(h)
    \/ InitialSlotFail
    \/ \E h \in Heights : GetSlotOk(h)
    \/ GetSlotFail
    \/ GetBlockNull
    \/ GetBlockFail
    \/ \E b \in ExtractBlocks : GetBlockOk(b)
    \/ ProcessTx
    \/ FinishBlock
    \/ Wake
    \/ \E w \in pendingWrites, o \in WriteOutcomes : CompleteWrite(w, o)
    \/ GetMints

SpecExtract == Init /\ [][NextExtract]_vars

-----------------------------------------------------------------------------
(* The scan loop without slot lag (src/unnamed/part_005; part_006 and
   part_007 have the same loop).  There is no file and no try/catch per
   slot: the whole cycle runs in one try, and lastSlot is assigned once,
   after the loop over the slots.  The state is that of the indexer; the
   variables of the file keep their initial values. *)

\* part_005:122-128  decodeInitializeMintInstruction of @solana/spl-token
\* throws unless the data are the 67 bytes of an InitializeMint and the
\* instruction has its mint and rent accounts; the key recorded is the mint
\* account.  The result is the ledger after the try/catch.
CycleDecodeAndAdd(tx, ix, mints) ==
    LET data == BufferFromBase64(ix.data) IN
    IF Len(data) # SchemaLen THEN mints
    ELSE IF data[1] # 0 THEN mints
    ELSE IF Len(ix.accounts) < 2 THEN mints
    ELSE IF ~HasKey(tx.accountKeys, ix.accounts[1]) THEN mints
    ELSE SetAdd(mints, toBase58(tx.accountKeys[ix.accounts[1] + 1]))

\* part_005:100-136  the loop over the instructions from instruction k on
RECURSIVE CycleIxLoop(_, _, _)
CycleIxLoop(tx, k, st) ==
    IF k > Len(tx.instructions) \/ st.thrown THEN st
    ELSE LET ix == tx.instructions[k] IN
         IF HasKey(tx.accountKeys, ix.programIdIndex)
            /\ tx.accountKeys[ix.programIdIndex + 1] = TOKEN_PROGRAM_ID
         THEN IF ~ix.hasAccounts
              THEN Acc(st.mints, st.writes, TRUE)
              ELSE CycleIxLoop(tx, k + 1,
                      Acc(CycleDecodeAndAdd(tx, ix, st.mints), st.writes, FALSE))
         ELSE CycleIxLoop(tx, k + 1, st)

\* part_005:85-137  the body of the for..of loop for one transaction
CycleHandleTx(tx, st) ==
    IF ~tx.hasTransaction THEN st
    ELSE IF tx.version > 0 THEN st
    ELSE IF ~tx.hasAccountKeys THEN st
    ELSE CycleIxLoop(tx, 1, st)

\* variant: the catch keeps the blocks that were done and moves the cursor
\* to the slot before the one that failed
CycleAbortKeepsProgress ==
    /\ fetched' = [fetched EXCEPT ![Len(fetched)].result = "error"]
    /\ lastSlot' = slot - 1
    /\ pc' = "sleep"
    /\ slot' = 0
    /\ txQueue' = <<>>
    /\ txIdx' = 0

\* part_005:142-147  an exception inside the cycle: logged, then the sleep
CycleAbort ==
    /\ fetched' = [fetched EXCEPT ![Len(fetched)].result = "error"]
    /\ lastSlot' = lastSlot
    /\ pc' = "sleep"
    /\ slot' = 0
    /\ txQueue' = <<>>
    /\ txIdx' = 0

\* part_005:75, 141  slot++ and the loop test after the block at `slot`
\* ended with `result`; after the last slot the cursor becomes the height
CycleNextSlot(result) ==
    LET done == [fetched EXCEPT ![Len(fetched)].result = result] IN
    /\ txQueue' = <<>>
    /\ txIdx' = 0
    /\ IF slot + 1 <= currentSlot
       THEN /\ pc' = "getBlock"
            /\ slot' = slot + 1
            /\ fetched' = Append(done, Fetch(slot + 1))
            /\ lastSlot' = lastSlot
       ELSE /\ pc' = "sleep"
            /\ slot' = 0
            /\ fetched' = done
            /\ lastSlot' = currentSlot

\* part_005:72-77, 141  getSlot resolves with h: the loop starts and awaits
\* the first getBlock, or it has no slot and the cursor becomes h
CycleGetSlotOk(h) ==
    /\ pc = "getSlot"
    /\ currentSlot' = h
    /\ targetSlot' = h
    /\ cycleStart' = lastSlot
    /\ IF lastSlot + 1 <= h
       THEN /\ pc' = "getBlock"
            /\ slot' = lastSlot + 1
            /\ fetched' = <<Fetch(lastSlot + 1)>>
            /\ lastSlot' = lastSlot
       ELSE /\ pc' = "sleep"
            /\ slot' = 0
            /\ fetched' = <<>>
            /\ lastSlot' = h
    /\ UNCHANGED <<newMints, file, pendingWrites, txQueue, txIdx, mintsArray,
                   apiResponse, prevLastSlot, srvVars>>

\* part_005:82  getBlock resolves with null
CycleBlockNull ==
    /\ pc = "getBlock"
    /\ CycleNextSlot("null")
    /\ UNCHANGED <<newMints, file, pendingWrites, currentSlot, targetSlot,
                   cycleStart, mintsArray, apiResponse, prevLastSlot, srvVars>>

\* part_005:77, 142  getBlock rejects
CycleBlockFail ==
    /\ pc = "getBlock"
    /\ CycleAbort
    /\ UNCHANGED <<newMints, file, pendingWrites, currentSlot, targetSlot,
                   cycleStart, mintsArray, apiResponse, prevLastSlot, srvVars>>

\* part_005:77-85  getBlock resolves with an object; iterating the
\* transactions of an object without transactions throws
CycleBlockOk(b) ==
    /\ pc = "getBlock"
    /\ IF b.hasTransactions
       THEN /\ pc' = "process"
            /\ txQueue' = b.transactions
            /\ txIdx' = 0
            /\ UNCHANGED <<slot, fetched, lastSlot>>
       ELSE CycleAbort
    /\ UNCHANGED <<newMints, file, pendingWrites, currentSlot, targetSlot,
                   cycleStart, mintsArray, apiResponse, prevLastSlot, srvVars>>

\* part_005:85-137  one transaction of the block
CycleProcessTx ==
    /\ pc = "process"
    /\ ~BlockDone(txQueue)
    /\ LET r == CycleHandleTx(Transactions[Head(txQueue)],
                              Acc(newMints, pendingWrites, FALSE)) IN
       /\ newMints' = r.mints
       /\ IF r.thrown
          THEN CycleAbort
          ELSE /\ txQueue' = Tail(txQueue)
               /\ txIdx' = txIdx + 1
               /\ UNCHANGED <<pc, slot, fetched, lastSlot>>
    /\ UNCHANGED <<file, pendingWrites, currentSlot, targetSlot, cycleStart,
                   mintsArray, apiResponse, prevLastSlot, srvVars>>

\* part_005:137-141  the transactions of the block are done
CycleFinishBlock ==
    /\ pc = "process"
    /\ BlockDone(txQueue)
    /\ CycleNextSlot("ok")
    /\ UNCHANGED <<newMints, file, pendingWrites, currentSlot, targetSlot,
                   cycleStart, mintsArray, apiResponse, prevLastSlot, srvVars>>

\* part_005:33-34  no file is read: the ledger starts empty
InitCycle == Init /\ file = FileMissing

CycleBlocks ==
    {[hasTransactions |-> FALSE, transactions |-> <<>>]}
    \cup {[hasTransactions |-> TRUE, transactions |-> q] :
                q \in SeqsUpTo(CycleNames, MaxTxPerBlock)}

\* part_005:51-60 has no catch around the initial getSlot: its rejection is
\* unhandled and ends the process, as InitialSlotFail does
NextCycle ==
    \/ \E h \in Heights : InitialSlotOk(h)
    \/ InitialSlotFail
    \/ \E h \in Heights : CycleGetSlotOk(h)
    \/ GetSlotFail
    \/ CycleBlockNull
    \/ CycleBlockFail
    \/ \E b \in CycleBlocks : CycleBlockOk(b)
    \/ CycleProcessTx
    \/ CycleFinishBlock
    \/ Wake
    \/ GetMints

SpecCycle == InitCycle /\ [][NextCycle]_vars

-----------------------------------------------------------------------------
(* The server variants (src/unnamed/part_003; src/server.js has the same
   handling inline).  A record of the store appears by its signature and
   its mint address; the timestamp, the supply, the authorities and the DEX
   fields are values of the remote answers that no decision depends on.
   processNewTokenTx is suspended at three awaits: getParsedTransaction,
   getParsedAccountInfo and checkDexListings.  It is called by the onLogs
   callback, any number of times concurrently, and by the poll, one
   signature after the other. *)

\* signatures the remote node reports while handlers run concurrently
MaxRaceSigs == 2
\* onLogs handlers in flight at the same time
MaxInFlightLogs == 2
\* signatures in the answer of one getSignaturesForAddress
MaxPollLen == 2
\* signatures of the runs that fill the store
MaxStore == 52

\* part_003:214  newTokens.slice(0, 50)
TokensCap == 50

RaceSigs == 1..MaxRaceSigs
StoreSigs == 1..MaxStore

\* part_003:114  initializeIx.parsed.info.mint of the transaction
MintOf(sig) == 1000 + sig

\* part_003:126-140  tokenInfo
TokenInfo(sig) == [signature |-> sig, mintAddress |-> MintOf(sig)]

\* part_003:96  newTokens.some(t => t.signature === signature)
Known(store, sig) == \E i \in 1..Len(store) : store[i].signature = sig

\* part_003:146  newTokens.unshift(tokenInfo)
Unshift(store, t) == <<t>> \o store

Min(a, b) == IF a <= b THEN a ELSE b

\* variant: slice(-50), the last 50 elements of the array
SliceFromEnd(arr, from, to) ==
    SubSeq(arr, Len(arr) - Min(to, Len(arr)) + 1, Len(arr))

\* Array.prototype.slice(from, to) with 0 <= from <= to: a new array of the
\* elements from index `from` up to, not including, index `to`
Slice(arr, from, to) == SubSeq(arr, from + 1, Min(to, Len(arr)))

Handler(sig, at, by) == [signature |-> sig, pc |-> at, by |-> by]

\* part_003:186-188  the for..of loop of the poll reaches the signatures of
\* q: a signature already in the store returns at once (part_003:96-98),
\* the first other one is handled
RECURSIVE SkipKnown(_, _)
SkipKnown(q, store) ==
    IF q = <<>> THEN q
    ELSE IF Known(store, Head(q)) THEN SkipKnown(Tail(q), store)
    ELSE q

\* part_003:186-191  the poll goes on with the signatures q after the store
\* has become `store` and the handlers `hs`
PollGoesOn(q, store, hs) ==
    LET rest == SkipKnown(q, store) IN
    /\ pollQueue' = rest
    /\ IF rest = <<>>
       THEN /\ pollPc' = "idle"
            /\ handlers' = hs
       ELSE /\ pollPc' = "handling"
            /\ handlers' = hs \cup {Handler(Head(rest), "getTx", "poll")}

\* part_003:202  the interval timer fires: getSignaturesForAddress is awaited
PollTimer ==
    /\ pollPc = "idle"
    /\ pollPc' = "getSigs"
    /\ UNCHANGED <<newTokens, handlers, pollQueue, tokensResponse, idxVars>>

\* part_003:181-188  getSignaturesForAddress resolves with the signatures q
SigsResolved(q) ==
    /\ pollPc = "getSigs"
    /\ PollGoesOn(q, newTokens, handlers)
    /\ UNCHANGED <<newTokens, tokensResponse, idxVars>>

\* part_003:189-191  getSignaturesForAddress rejects
SigsRejected ==
    /\ pollPc = "getSigs"
    /\ pollPc' = "idle"
    /\ UNCHANGED <<newTokens, handlers, pollQueue, tokensResponse, idxVars>>

\* part_003:161-167, 93-103  onLogs delivers the logs of `sig`, which hold
\* 'initializeMint'; processNewTokenTx returns if the store knows the
\* signature and otherwise awaits getParsedTransaction
OnLogs(sig, maxInFlight) ==
    /\ Cardinality({h \in handlers : h.by = "log"}) < maxInFlight
    /\ ~Known(newTokens, sig)
    /\ handlers' = handlers \cup {Handler(sig, "getTx", "log")}
    /\ UNCHANGED <<newTokens, pollPc, pollQueue, tokensResponse, idxVars>>

\* the handler h has returned: the onLogs callback ends, the poll goes on
\* with its next signature
HandlerEnds(h, store) ==
    IF h.by = "poll"
    THEN PollGoesOn(Tail(pollQueue), store, handlers \ {h})
    ELSE /\ handlers' = handlers \ {h}
         /\ UNCHANGED <<pollPc, pollQueue>>

\* part_003:100-120  getParsedTransaction resolves: with a transaction that
\* has an initializeMint instruction ("mint"), getParsedAccountInfo is
\* awaited; with null, no meta or no such instruction ("none") and with a
\* rejection ("throws", part_003:150-152) the handler returns
TxResolved(h, outcome) ==
    /\ h \in handlers
    /\ h.pc = "getTx"
    /\ IF outcome = "mint"
       THEN /\ handlers' = (handlers \ {h}) \cup {Handler(h.signature, "getAccount", h.by)}
            /\ UNCHANGED <<pollPc, pollQueue>>
       ELSE HandlerEnds(h, newTokens)
    /\ UNCHANGED <<newTokens, tokensResponse, idxVars>>

TxOutcomes == {"mint", "none", "throws"}

\* part_003:117-143  getParsedAccountInfo resolves and checkDexListings is
\* awaited, or it rejects and the handler returns
AccountResolved(h, ok) ==
    /\ h \in handlers
    /\ h.pc = "getAccount"
    /\ IF ok
       THEN /\ handlers' = (handlers \ {h}) \cup {Handler(h.signature, "dex", h.by)}
            /\ UNCHANGED <<pollPc, pollQueue>>
       ELSE HandlerEnds(h, newTokens)
    /\ UNCHANGED <<newTokens, tokensResponse, idxVars>>

\* part_003:143-147  checkDexListings returns (it catches its own
\* failures): the record is added to the store
DexDone(h) ==
    /\ h \in handlers
    /\ h.pc = "dex"
    /\ newTokens' = Unshift(newTokens, TokenInfo(h.signature))
    /\ HandlerEnds(h, newTokens')
    /\ UNCHANGED <<tokensResponse, idxVars>>

\* part_003:211-215  GET /tokens
GetTokens ==
    /\ tokensResponse' = [taken |-> TRUE, body |-> Slice(newTokens, 0, TokensCap)]
    /\ UNCHANGED <<newTokens, handlers, pollPc, pollQueue, idxVars>>

\* the indexer is not part of the server variants
IndexerAbsent ==
    /\ file = FileMissing
    /\ mintsArray = <<>>
    /\ newMints = <<>>
    /\ pendingWrites = {}
    /\ lastSlot = 0
    /\ pc = "listen"
    /\ currentSlot = 0
    /\ targetSlot = 0
    /\ slot = 0
    /\ txQueue = <<>>
    /\ txIdx = 0
    /\ cycleStart = 0
    /\ fetched = <<>>
    /\ apiResponse = NoResponse
    /\ prevLastSlot = 0

InitServer == InitServerVars /\ IndexerAbsent

\* answers of getSignaturesForAddress: recent signatures, none twice
PollAnswers == {q \in SeqsUpTo(RaceSigs, MaxPollLen) : Distinct(q)}

\* the server with the log subscription and the poll running concurrently
NextServer ==
    \/ PollTimer
    \/ \E q \in PollAnswers : SigsResolved(q)
    \/ SigsRejected
    \/ \E sig \in RaceSigs : OnLogs(sig, MaxInFlightLogs)
    \/ \E h \in handlers, o \in TxOutcomes : TxResolved(h, o)
    \/ \E h \in handlers, ok \in BOOLEAN : AccountResolved(h, ok)
    \/ \E h \in handlers : DexDone(h)
    \/ GetTokens

SpecServer == InitServer /\ [][NextServer]_vars

\* the server filling its store: the log subscription reports one new
\* signature after the other and the poll finds nothing
NextTokens ==
    \/ PollTimer
    \/ SigsResolved(<<>>)
    \/ SigsRejected
    \/ \E sig \in StoreSigs : sig = Len(newTokens) + 1 /\ OnLogs(sig, 1)
    \/ \E h \in handlers, o \in TxOutcomes : TxResolved(h, o)
    \/ \E h \in handlers, ok \in BOOLEAN : AccountResolved(h, ok)
    \/ \E h \in handlers : DexDone(h)
    \/ GetTokens

SpecTokens == InitServer /\ [][NextTokens]_vars

-----------------------------------------------------------------------------
(* Properties *)

FetchedSlots == [i \in 1..Len(fetched) |-> fetched[i].slot]

AllAvailable == \A i \in 1..Len(fetched) : fetched[i].result = "ok"

\* the getBlock calls of the running cycle stay inside cursor+1 .. H-LAG and
\* go upwards without repeating an index
FetchesInRange ==
    /\ \A i \in 1..Len(fetched) :
            cycleStart + 1 <= fetched[i].slot /\ fetched[i].slot <= currentSlot - SLOT_LAG
    /\ \A i, j \in 1..Len(fetched) : i < j => fetched[i].slot < fetched[j].slot

ScenarioCycleEnded == pc = "sleep" /\ currentSlot = 105 /\ cycleStart = 100

\* C1 as written: the fetches of a cycle are inside cursor+1 .. H-LAG,
\* increasing and without repetition, and the cycle with H = 105, LAG = 2,
\* cursor = 100 fetches exactly 101 and 102 and ends with the cursor at 102.
C1_FetchRangeEndsAt102 ==
    /\ FetchesInRange
    /\ ScenarioCycleEnded /\ AllAvailable =>
            FetchedSlots = <<101, 102>> /\ lastSlot = 102

\* C1 amended: the fetches of a cycle are inside cursor+1 .. H-LAG,
\* increasing and without repetition, and the cycle with H = 105, LAG = 2,
\* cursor = 100 fetches exactly 101, 102 and 103 (H-LAG is 103) and, when the
\* three blocks are available, ends with the cursor at 103.
C1_FetchRangeEndsAt103 ==
    /\ FetchesInRange
    /\ ScenarioCycleEnded =>
            /\ FetchedSlots = <<101, 102, 103>>
            /\ AllAvailable => lastSlot = 103

C1_Witness == ScenarioCycleEnded /\ AllAvailable /\ lastSlot = 103

\* C2: no step lowers the cursor lastSlot, whatever the cycle met
\* (unavailable blocks, per-block exceptions, failed height polls).
C2_CursorNonDecreasing == [][lastSlot' >= lastSlot]_vars

C2_Witness ==
    /\ pc = "sleep"
    /\ cycleStart > 0
    /\ lastSlot > cycleStart
    /\ \E i \in 1..Len(fetched) : fetched[i].result = "null"
    /\ \E i \in 1..Len(fetched) : fetched[i].result = "error"

\* C3 as written: the cursor never reaches or passes a block index whose
\* processing ended in a caught per-block exception.
C3_CursorBelowFailedBlock ==
    \A i \in 1..Len(fetched) :
        fetched[i].result = "error" => lastSlot < fetched[i].slot

\* C4 as written: at the end of a cycle the cursor has reached every index
\* for which getBlock answered null, as it would for an empty block.
C4_UnavailableCountsAsEmpty ==
    pc = "sleep" =>
        \A i \in 1..Len(fetched) :
            fetched[i].result = "null" => lastSlot >= fetched[i].slot

\* C5: while a block is being handled the cursor is below its index, and
\* the scan loop moves the cursor only when every transaction of the block
\* has been handled, and then to the index of that block.
C5_NoPartialCredit ==
    [][/\ pc = "process" => lastSlot < slot
       /\ lastSlot' # lastSlot /\ pc # "listen" =>
                pc = "process" /\ txQueue = <<>> /\ lastSlot' = slot]_vars

C5_Witness ==
    /\ pc = "process"
    /\ txQueue = <<>>
    /\ txIdx >= 2
    /\ Len(newMints) > Len(mintsArray)
    /\ lastSlot < slot

\* the ledger keys a transaction yields when nothing is known yet
KeysOf(tx) == Range(HandleTx(tx, Acc(<<>>, {}, FALSE)).mints)

\* C6: no address occurs twice in the ledger, in a snapshot handed to
\* fs.writeFile or in the file, and handling a transaction all of whose
\* keys are already in the ledger changes neither the ledger nor the set of
\* started writes.
C6_InsertIdempotent ==
    [][/\ Distinct(newMints) /\ Distinct(newMints')
       /\ \A w \in pendingWrites' : Distinct(w)
       /\ file'.state = "array" => Distinct(file'.content)
       /\ (/\ pc = "process"
           /\ txQueue # <<>>
           /\ KeysOf(Transactions[Head(txQueue)]) \subseteq Range(newMints))
          => newMints' = newMints /\ pendingWrites' = pendingWrites]_vars

\* the loop stands at a transaction whose key was inserted earlier in this
\* run
C6_Witness ==
    /\ pc = "process"
    /\ txQueue # <<>>
    /\ \E a \in KeysOf(Transactions[Head(txQueue)]) :
            Has(newMints, a) /\ a \notin Range(mintsArray)
    /\ pendingWrites = {}

\* the account a decoded InitializeMint instruction initializes: the first
\* account of the instruction
RECURSIVE MintAccounts(_, _)
MintAccounts(tx, k) ==
    IF k > Len(tx.instructions) THEN {}
    ELSE LET ix == tx.instructions[k]
             bytes == IF tx.version >= 0 THEN ix.data ELSE BufferFromBase64(ix.data)
             decoded == decodeInitializeMintInstruction([data |-> bytes])
             hit == /\ HasKey(tx.accountKeys, ix.programIdIndex)
                    /\ tx.accountKeys[ix.programIdIndex + 1] = TOKEN_PROGRAM_ID
                    /\ ix.hasAccounts
                    /\ Len(ix.accounts) >= 1
                    /\ ~decoded.thrown
                    /\ decoded.instruction = 0
         IN (IF hit THEN {toBase58(tx.accountKeys[ix.accounts[1] + 1])} ELSE {})
            \cup MintAccounts(tx, k + 1)

\* the mint addresses of the records a transaction decodes to
InitializedMints(tx) ==
    IF ~tx.hasTransaction \/ ~tx.hasAccountKeys THEN {}
    ELSE IF tx.version >= 0 /\ ~tx.decompiles THEN {}
    ELSE MintAccounts(tx, 1)

\* C7 as written: after a transaction has been handled the ledger holds
\* the address of every mint account the transaction initializes.
C7_LedgerKeyIsMintAddress ==
    [][pc = "process" /\ txQueue # <<>> =>
            \A m \in InitializedMints(Transactions[Head(txQueue)]) : Has(newMints', m)]_vars

\* C8 as written: the loop never stands at a transaction while a write
\* started by an earlier discovery has not completed.
C8_WriteDoneBeforeNextTx ==
    pc = "process" /\ txQueue # <<>> => pendingWrites = {}

\* C9 as written: an address the file holds is in every later content of
\* the file.
C9_FileKeepsEntries ==
    [][file.state = "array" /\ file'.state = "array" =>
            Range(file.content) \subseteq Range(file'.content)]_vars

\* C10: a response of GET /api/mints taken while nothing has been inserted
\* since the start is the array the file held at the start, in file order.
C10_ResumeRoundTrip ==
    apiResponse.taken /\ Distinct(mintsArray) /\ Len(newMints) = Len(mintsArray) =>
        apiResponse.body = mintsArray

C10_Witness ==
    /\ apiResponse.taken
    /\ Len(mintsArray) = 2
    /\ Len(newMints) = Len(mintsArray)
    /\ lastSlot > 0

\* C11 as written: after a restart with the cursor at C the scan resumes at
\* C: the loop, which fetches only above its cursor, starts with a cursor
\* that is not above C (no index above C is passed over unfetched), and it
\* fetches no index at or below C again.
C11_RestartResumesAtCursor ==
    [][prevLastSlot > 0 =>
            /\ pc = "listen" /\ pc' = "getSlot" => lastSlot' <= prevLastSlot
            /\ pc' = "getBlock" => slot' > prevLastSlot]_vars

\* C12 as written: the step that establishes the cursor at process start
\* sets it to the reported height minus SLOT_LAG, or to the cursor of the
\* run before the restart.
C12_InitialCursorLaggedOrResumed ==
    [][pc = "listen" /\ pc' = "getSlot" =>
            \E h \in Heights :
                /\ InitialSlotOk(h)
                /\ \/ lastSlot' = h - SLOT_LAG
                   \/ prevLastSlot > 0 /\ lastSlot' = prevLastSlot]_vars

\* C13: while the listen callback has not yet started the scan loop the
\* ledger holds exactly what mints.json holds, in file order, or nothing
\* when the file is missing or does not parse; in both cases the step to
\* the scan loop is possible; the loaded addresses are in the ledger in
\* every cycle.
C13_LoadedBeforeScan ==
    /\ pc = "listen" =>
            /\ mintsArray = ParsedArray(file)
            /\ file.state = "array" => newMints = file.content
            /\ file.state # "array" => newMints = <<>>
            /\ ENABLED InitialSlotOk(100)
    /\ pc \notin {"listen", "exit"} => Range(mintsArray) \subseteq Range(newMints)

\* the scan loop was entered although the file did not parse
C13_Witness ==
    /\ pc = "getBlock"
    /\ file = FileCorrupt
    /\ newMints = <<>>
    /\ mintsArray = <<>>

\* C14: the step that ends a write, failed or not, changes neither the
\* ledger nor the cursor nor the position of the scan loop; no step takes an
\* address out of the ledger; a response of GET /api/mints is the ledger of
\* that moment; every snapshot handed to fs.writeFile holds all addresses
\* the ledger held before, those of failed writes included.
C14_FailedWriteKeepsLedger ==
    [][/\ pendingWrites' # pendingWrites /\ pendingWrites' \subseteq pendingWrites =>
            newMints' = newMints /\ lastSlot' = lastSlot /\ pc' = pc /\ slot' = slot
       /\ Range(newMints) \subseteq Range(newMints')
       /\ apiResponse'.taken /\ apiResponse' # apiResponse =>
            apiResponse'.body = newMints
       /\ \A w \in pendingWrites' \ pendingWrites :
            Range(newMints) \subseteq Range(w)]_vars

\* the write of the first address failed at open (the file is still
\* missing); the address is in the response and in the snapshot of the write
\* that the second discovery started
C14_Witness ==
    /\ file = FileMissing
    /\ mintsArray = <<>>
    /\ Len(newMints) = 2
    /\ pendingWrites = {newMints}
    /\ apiResponse.taken
    /\ apiResponse.body = newMints

\* a cycle whose height query failed: the loop sleeps without a height
HeightQueryFailed == pc = "sleep" /\ currentSlot = 0

\* C15: the step in which the height query of a cycle fails leads to the
\* sleep and changes neither the cursor nor the ledger nor the writes; the
\* sleep ends only in the next height query, with cursor and ledger as they
\* were; once the loop runs the process never exits; at every height query
\* the failure is possible again and so is the success.
C15_HeightFailureRetried ==
    [][/\ pc = "getSlot" /\ pc' # "getSlot" /\ currentSlot' = 0 =>
            /\ pc' = "sleep"
            /\ lastSlot' = lastSlot /\ newMints' = newMints
            /\ pendingWrites' = pendingWrites
       /\ pc = "sleep" /\ pc' # "sleep" =>
            pc' = "getSlot" /\ lastSlot' = lastSlot /\ newMints' = newMints
       /\ pc # "listen" => pc' # "exit"
       /\ pc = "sleep" => ENABLED Wake
       /\ pc = "getSlot" => ENABLED GetSlotFail /\ ENABLED GetSlotOk(100)]_vars

\* a failed height query after the ledger has grown in this run
C15_Witness ==
    /\ HeightQueryFailed
    /\ Len(newMints) > Len(mintsArray)
    /\ lastSlot > 100

\* C16: when the loop runs, the cursor is a height the node reported or an
\* index the loop has handled since; a process whose cursor was never set
\* has left the listen callback only to "exit", where no step is possible
\* and nothing was fetched; at the listen callback the failure is possible.
C16_FailFast ==
    /\ pc \in {"getSlot", "getBlock", "process", "sleep"} => lastSlot \in Heights
    /\ pc # "listen" /\ lastSlot = 0 => pc = "exit"
    /\ pc = "exit" => lastSlot = 0 /\ fetched = <<>> /\ currentSlot = 0 /\ ~ENABLED Next
    /\ pc = "listen" => ENABLED InitialSlotFail

\* the process has exited although mints.json was loaded
C16_Witness ==
    /\ pc = "exit"
    /\ Len(newMints) = 2

\* C17 as written: when the transaction at which the loop stands is
\* followed by others in the block, handling it, malformed or not, leaves
\* the loop at the following transaction of the same block.
C17_MalformedTxSkipped ==
    [][pc = "process" /\ Len(txQueue) >= 2 =>
            pc' = "process" /\ txQueue' = Tail(txQueue) /\ slot' = slot]_vars

\* index.js:178, 184, 267  the transactions the code does not classify: no
\* transaction object, no message or account keys on the legacy path, a
\* version for which the library cannot produce the decompiled message
Unclassifiable(tx) ==
    \/ ~tx.hasTransaction
    \/ tx.version < 0 /\ ~tx.hasAccountKeys
    \/ tx.version >= 0 /\ ~tx.decompiles

\* C18: handling a transaction that cannot be classified changes neither
\* the ledger nor the writes and leaves the loop at the following
\* transaction of the same block; when the block is through, the step to the
\* next index is possible; once the loop runs the process never exits.
C18_UnclassifiableNotFatal ==
    [][/\ (/\ pc = "process"
           /\ txQueue # <<>>
           /\ Unclassifiable(Transactions[Head(txQueue)]))
          => /\ newMints' = newMints
             /\ pendingWrites' = pendingWrites
             /\ lastSlot' = lastSlot
             /\ pc' = "process" /\ txQueue' = Tail(txQueue) /\ slot' = slot
       /\ pc = "process" /\ txQueue = <<>> => ENABLED FinishBlock
       /\ pc # "listen" => pc' # "exit"]_vars

\* a transaction that cannot be classified has been handled, the ledger is
\* still empty and the loop stands at a well-formed InitializeMint
C18_Witness ==
    /\ pc = "process"
    /\ txIdx = 1
    /\ txQueue = <<"mintM3A2">>
    /\ newMints = <<>>

\* the bytes handed to the decoder for instruction k of a transaction
PayloadBytes(tx, k) ==
    IF tx.version >= 0 THEN tx.instructions[k].data
    ELSE BufferFromBase64(tx.instructions[k].data)

\* a payload that is not a mint initialization: another length than the
\* layout, or another first byte than the opcode 0
Refused(bytes) ==
    IF Len(bytes) # SchemaLen THEN TRUE ELSE bytes[1] # 0

\* the keys of the payloads of a transaction that are not refused
AcceptedKeys(tx) ==
    {toBase58(SubSeq(PayloadBytes(tx, k), 3, 2 + KeyLen)) :
        k \in {i \in 1..Len(tx.instructions) : ~Refused(PayloadBytes(tx, i))}}

\* C19: handling a transaction of token instructions inserts the keys of
\* the payloads that are not refused and no other: a refused payload adds
\* nothing to the ledger, starts no write (the writes started are at most
\* the keys that were new), lets no exception leave the transaction, and the
\* instructions after it are decoded.
C19_RefusedPayloadAbsorbed ==
    [][pc = "process" /\ txQueue # <<>> =>
            LET tx == Transactions[Head(txQueue)] IN
            /\ Range(newMints') = Range(newMints) \cup AcceptedKeys(tx)
            /\ pendingWrites \subseteq pendingWrites'
            /\ Cardinality(pendingWrites' \ pendingWrites)
                    <= Cardinality(AcceptedKeys(tx) \ Range(newMints))
            /\ pc' = "process" /\ txQueue' = Tail(txQueue)]_vars

\* a transaction whose first payload was refused has been handled: the
\* ledger holds the key of its second instruction and nothing else
C19_Witness ==
    /\ pc = "process"
    /\ txQueue = <<>>
    /\ txIdx = 1
    /\ mintsArray = <<>>
    /\ newMints = <<"Auth1">>
    /\ Cardinality(pendingWrites) = 1

\* the field values the payloads are built from
LayoutFields ==
    [op : {0, 1, 255}, decimals : {0, 6, 255},
     authority : {Base58Table["Auth1"], Base58Table["Auth2"]},
     flag : {0, 1}, freeze : {KeyBytes(0), Base58Table["Payer"]}]

Encode(l) == MintPayload(l.op, l.decimals, l.authority, l.flag, l.freeze)

\* the payloads of the transaction at which the loop stands
PayloadsAtHead ==
    IF pc = "process" /\ txQueue # <<>>
    THEN LET tx == Transactions[Head(txQueue)] IN
         {PayloadBytes(tx, k) : k \in 1..Len(tx.instructions)}
    ELSE {}

Twin ==
    [n \in {"l.wellFormed", "v.wellFormed", "v.lookup"} |->
        IF n = "l.wellFormed" THEN "v.wellFormed" ELSE "l.wellFormed"]

\* C21 as written: handling a transaction leaves the ledger and the writes
\* as handling its twin in the other encoding would have left them.
C21_EncodingsAgree ==
    [][pc = "process" /\ txQueue # <<>> /\ Head(txQueue) \in DOMAIN Twin =>
            LET twin == HandleTx(Transactions[Twin[Head(txQueue)]],
                                 Acc(newMints, pendingWrites, FALSE))
            IN newMints' = twin.mints /\ pendingWrites' = twin.writes]_vars

\* the program an instruction is addressed to
IsTokenIx(tx, k) ==
    LET idx == tx.instructions[k].programIdIndex IN
    HasKey(tx.accountKeys, idx) /\ tx.accountKeys[idx + 1] = TOKEN_PROGRAM_ID

\* the ledger after the payloads of the token instructions k, k+1, ... of
\* a transaction have gone through the decoder in their order
RECURSIVE LedgerAfter(_, _, _)
LedgerAfter(tx, k, mints) ==
    IF k > Len(tx.instructions) THEN mints
    ELSE IF IsTokenIx(tx, k) /\ ~Refused(PayloadBytes(tx, k))
         THEN LedgerAfter(tx, k + 1,
                  SetAdd(mints, toBase58(SubSeq(PayloadBytes(tx, k), 3, 2 + KeyLen))))
         ELSE LedgerAfter(tx, k + 1, mints)

\* C22 as written: handling a transaction leaves the ledger as decoding
\* exactly its token instructions, all of them and in their order, leaves
\* it.
C22_ExactlyTokenInstructions ==
    [][pc = "process" /\ txQueue # <<>> /\ Transactions[Head(txQueue)].hasAccountKeys =>
            newMints' = LedgerAfter(Transactions[Head(txQueue)], 1, newMints)]_vars

\* C23: a GET /api/mints answers with the addresses of the ledger at that
\* moment in insertion order and changes nothing else, and an insertion
\* after it leaves the answer already taken as it was.
C23_ResponseIsSnapshot ==
    [][/\ apiResponse'.taken /\ apiResponse' # apiResponse =>
            /\ apiResponse'.body = newMints
            /\ UNCHANGED <<pc, lastSlot, newMints, file, pendingWrites, slot, txQueue>>
       /\ apiResponse.taken /\ newMints' # newMints =>
            apiResponse' = apiResponse]_vars

\* a response taken while a block was awaited, and an address inserted
\* after it
C23_Witness ==
    /\ apiResponse.taken
    /\ Len(apiResponse.body) < Len(newMints)
    /\ \A i \in 1..Len(apiResponse.body) : apiResponse.body[i] = newMints[i]

\* C24: of the blocks fetched in a cycle only the last can be unfinished,
\* it is the block at `slot`, and it is unfinished exactly while the scan
\* awaits it or handles its transactions; outside that handling no
\* transaction is queued.
C24_OneBlockAtATime ==
    /\ \A i \in 1..Len(fetched) : fetched[i].result = "pending" => i = Len(fetched)
    /\ pc \in {"getBlock", "process"} <=>
            fetched # <<>> /\ fetched[Len(fetched)].result = "pending"
    /\ pc \in {"getBlock", "process"} => fetched[Len(fetched)].slot = slot
    /\ pc # "process" => txQueue = <<>> /\ txIdx = 0

\* the second block of a cycle is being handled after the first has ended
C24_Witness ==
    /\ pc = "process"
    /\ txQueue # <<>>
    /\ Len(fetched) >= 2
    /\ fetched[1].result = "ok"

\* C25: once the loop has started the process never ends and a sleep is
\* left only for a new height query; every height query, whatever the
\* cycle meets, is followed by a sleep, and every sleep by a height query.
C25_LoopNeverEnds ==
    /\ [][/\ pc \in {"getSlot", "getBlock", "process", "sleep"} => pc' # "exit"
          /\ pc = "sleep" => pc' \in {"sleep", "getSlot"}
          /\ pc' = "sleep" => pc \in {"sleep", "getSlot", "getBlock", "process"}]_vars
    /\ (pc = "getSlot") ~> (pc = "sleep")
    /\ (pc = "sleep") ~> (pc = "getSlot")

\* a cycle in which a block failed has reached its sleep
C25_Witness ==
    /\ pc = "sleep"
    /\ \E i \in 1..Len(fetched) : fetched[i].result = "error"

\* C26 as written: the cursor is at most the height the last height query
\* returned.
C26_CursorAtMostLastHeight == currentSlot > 0 => lastSlot <= currentSlot

\* C26, amended: the start-up sets the cursor to the height it observed,
\* and every later value of the cursor is at most H - SLOT_LAG for the
\* height H returned by the height query of the cycle that assigns it; a
\* block is only fetched at or below that target.
C26_CursorAtMostCycleTarget ==
    [][/\ lastSlot' # lastSlot =>
            \/ pc = "listen" /\ lastSlot' \in Heights
            \/ currentSlot > 0 /\ lastSlot' <= currentSlot - SLOT_LAG
       /\ pc' = "getBlock" => currentSlot' > 0 /\ slot' <= currentSlot' - SLOT_LAG]_vars

\* a cycle has moved the cursor up to its target
C26_Witness ==
    /\ currentSlot > 0
    /\ cycleStart > 0
    /\ lastSlot > cycleStart
    /\ lastSlot = currentSlot - SLOT_LAG

\* C27 as written: when the process stops, the file the next boot reads is
\* the complete array it held before or the complete array of a write
\* that was in flight.
C27_FileNeverPartial ==
    [][prevLastSlot' # prevLastSlot =>
            \/ file' = file
            \/ \E w \in pendingWrites : file' = FileArray(w)]_vars

\* C28: no step of a run takes an address out of the ledger or moves one:
\* the ledger before the step is the head of the ledger after it.
C28_LedgerGrowsOnly ==
    [][/\ Len(newMints) <= Len(newMints')
       /\ \A i \in 1..Len(newMints) : newMints'[i] = newMints[i]]_vars

\* the ledger has grown beyond what was loaded, a block of the cycle has
\* failed and a write has left mints.json broken
C28_Witness ==
    /\ mintsArray # <<>>
    /\ Len(newMints) > Len(mintsArray)
    /\ file = FileCorrupt
    /\ \E i \in 1..Len(fetched) : fetched[i].result = "error"

\* C29: the writes a step starts are exactly the snapshots of the ledger
\* after each address the step inserts, one per insertion, each the whole
\* ledger at that moment; a step that inserts nothing starts no write.
C29_OneWritePerInsertion ==
    [][pendingWrites' \ pendingWrites =
            {SubSeq(newMints', 1, n) : n \in (Len(newMints) + 1)..Len(newMints')}]_vars

\* one transaction has inserted two addresses and both writes are in flight
C29_Witness ==
    /\ Len(newMints) >= 2
    /\ pendingWrites = {SubSeq(newMints, 1, n) : n \in (Len(newMints) - 1)..Len(newMints)}

\* C30: a height query that returns H with H - SLOT_LAG at or below the
\* cursor leads to the sleep with no block fetched and with the cursor, the
\* ledger, the file and the writes in flight as they were.
C30_NoOpCycleChangesNothing ==
    [][pc = "getSlot" /\ currentSlot' # currentSlot
            /\ currentSlot' - SLOT_LAG <= lastSlot =>
            /\ pc' = "sleep"
            /\ fetched' = <<>>
            /\ UNCHANGED <<lastSlot, newMints, file, pendingWrites, txQueue>>]_vars

\* a cycle whose target equals the cursor has gone to sleep
C30_Witness ==
    /\ pc = "sleep"
    /\ currentSlot > 0
    /\ currentSlot - SLOT_LAG = lastSlot
    /\ fetched = <<>>

C36_NoDuplicateSignatures ==
    \A i, j \in 1..Len(newTokens) :
        newTokens[i].signature = newTokens[j].signature => i = j

DecodeFailure == [thrown |-> TRUE]

DecodeRecord(op, decimals, authority, flag, freeze) ==
    [thrown |-> FALSE, instruction |-> op, decimals |-> decimals,
     mintAuthority |-> authority, freezeAuthorityOption |-> flag,
     freezeAuthority |-> freeze]

\* the outcome of decoding each payload, written down once
DecodeReference ==
    [kind \in PayloadKinds |->
        CASE kind \in {"empty", "opcodeOnly", "short66", "long68"} -> DecodeFailure
          [] kind = "opcode1" ->
                DecodeRecord(1, 6, Base58Table["Auth2"], 0, KeyBytes(0))
          [] kind = "opcode255" ->
                DecodeRecord(255, 6, Base58Table["Auth2"], 0, KeyBytes(0))
          [] kind = "wellFormed" ->
                DecodeRecord(0, 6, Base58Table["Auth2"], 0, KeyBytes(0))
          [] kind = "withFreeze" ->
                DecodeRecord(0, 0, Base58Table["Auth2"], 1, Base58Table["Payer"])
          [] kind = "flag0FreezeBytes" ->
                DecodeRecord(0, 255, Base58Table["Auth2"], 0, Base58Table["Payer"])]

C33_CompletedNeverRefetched ==
    [][/\ pc = "process" /\ txQueue = <<>> /\ pc' # "process" => lastSlot' = slot
       /\ lastSlot' >= lastSlot
       /\ pc' = "getBlock" /\ (pc # "getBlock" \/ slot' # slot) =>
            slot' > lastSlot']_vars

\* block i of the cycle was processed, the cursor is i and the fetch that
\* follows asks for i + 1
C33_Witness ==
    /\ pc = "getBlock"
    /\ Len(fetched) >= 2
    /\ fetched[Len(fetched) - 1].result = "ok"
    /\ lastSlot = fetched[Len(fetched) - 1].slot
    /\ slot = lastSlot + 1

\* the entry k of the cycle's fetches is a skipped block: unavailable, or
\* ended by a caught exception
SkippedAt(f, k) == f[k].result \in {"null", "error"}

\* the indices a cycle can fetch
ScanIndices == 101..(100 + MaxAdvance - SLOT_LAG)

\* C34: when a cycle ends, the cursor is above a skipped index i exactly
\* when a higher index of the cycle was processed, and then it is at that
\* index or above; no fetch ever asks for an index at or below the cursor,
\* so such an i stays a gap; a skipped index still above the cursor is
\* fetched again in a later cycle.
C34_SkippedRetriedUnlessPassed ==
    /\ [][pc' = "sleep" /\ pc \in {"getBlock", "process"} =>
            \A k \in 1..Len(fetched') : SkippedAt(fetched', k) =>
                /\ (\E j \in (k + 1)..Len(fetched') : fetched'[j].result = "ok")
                        <=> lastSlot' > fetched'[k].slot
                /\ \A j \in (k + 1)..Len(fetched') :
                        fetched'[j].result = "ok" => lastSlot' >= fetched'[j].slot]_vars
    /\ [](pc = "getBlock" => slot > lastSlot)
    /\ \A i \in ScanIndices :
            (/\ pc = "sleep"
             /\ lastSlot < i
             /\ \E k \in 1..Len(fetched) : fetched[k].slot = i /\ SkippedAt(fetched, k))
                ~> (pc = "getBlock" /\ slot = i)

\* a cycle has ended with a skipped index below a processed one: the cursor
\* has passed the gap
C34_Witness ==
    /\ pc = "sleep"
    /\ \E k \in 1..Len(fetched) :
            /\ SkippedAt(fetched, k)
            /\ \E j \in (k + 1)..Len(fetched) : fetched[j].result = "ok"
            /\ lastSlot > fetched[k].slot

\* C35: the step at which a transaction of block i throws leaves the
\* cursor below i, marks the block failed and keeps the ledger and the
\* writes of the transactions handled before; and no handling of a
\* transaction, first or repeated, puts an address into the ledger twice
\* or starts a write whose newest address was in the ledger already.
C35_PartialBlockKept ==
    [][/\ pc = "process" /\ txQueue # <<>> /\ pc' # "process" =>
            /\ lastSlot' = lastSlot /\ lastSlot' < slot
            /\ fetched'[Len(fetched)] = [slot |-> slot, result |-> "error"]
            /\ newMints' = newMints
            /\ pendingWrites' = pendingWrites
       /\ pc = "process" /\ txQueue # <<>> =>
            /\ Distinct(newMints')
            /\ \A i \in 1..Len(newMints) : newMints'[i] = newMints[i]
            /\ \A w \in pendingWrites' \ pendingWrites :
                    /\ w # <<>>
                    /\ ~Has(newMints, w[Len(w)])]_vars

\* the cursor has not moved since the start, so the address in the ledger
\* came from a block that failed, and its write has ended; in a later
\* cycle the first block above the cursor arrives again with the
\* transaction that inserts this address and the one that throws
C35_Witness ==
    /\ pc = "process"
    /\ txIdx = 0
    /\ txQueue = <<"mintM3A2", "badShape">>
    /\ lastSlot = 100
    /\ slot = 101
    /\ Len(fetched) = 1
    /\ mintsArray = <<>>
    /\ newMints = <<"Auth2">>
    /\ file = FileArray(<<"Auth2">>)
    /\ pendingWrites = {}

\* C37: in the loop without slot lag the cursor changes only at start-up
\* and at the end of a cycle none of whose steps threw, and then it becomes
\* the height the cycle observed, after a fetch of every index from the old
\* cursor + 1 up to that height, null answers included; a cycle with no
\* exception ends so; a step that throws ends the cycle with the cursor it
\* began with; every cycle starts its scan at cursor + 1; and the ledger
\* never holds an address twice.
C37_CursorOnlyAfterCleanCycle ==
    [][/\ lastSlot' # lastSlot =>
            \/ pc = "listen"
            \/ /\ pc' = "sleep"
               /\ currentSlot' > 0
               /\ lastSlot' = currentSlot'
               /\ lastSlot = cycleStart'
               /\ Len(fetched') = IF currentSlot' > lastSlot
                                  THEN currentSlot' - lastSlot ELSE 0
               /\ \A k \in 1..Len(fetched') :
                    /\ fetched'[k].slot = lastSlot + k
                    /\ fetched'[k].result \in {"ok", "null"}
       /\ pc' = "sleep" /\ pc # "sleep" /\ currentSlot' > 0
            /\ (\A k \in 1..Len(fetched') : fetched'[k].result # "error") =>
            lastSlot' = currentSlot'
       /\ pc' = "sleep" /\ pc # "sleep"
            /\ (\E k \in 1..Len(fetched') : fetched'[k].result = "error") =>
            lastSlot' = lastSlot /\ lastSlot' = cycleStart'
       /\ pc = "getSlot" /\ pc' = "getBlock" => slot' = lastSlot + 1
       /\ Distinct(newMints')]_vars

\* a cycle has processed a block that holds a mint and has then been ended
\* by an exception: the address is in the ledger and the cursor is the one
\* the cycle began with
C37_Witness ==
    /\ pc = "sleep"
    /\ Len(fetched) >= 2
    /\ fetched[1].result = "ok"
    /\ fetched[Len(fetched)].result = "error"
    /\ lastSlot = cycleStart
    /\ newMints = <<"Mint3">>

====
